---- MODULE Spec2Model ----
(***************************************************************************)
(* A model of the `termination` library: the variable pool (pools.py), the *)
(* term data model, position addressing and substitution (terms.py), and   *)
(* the ordering functions (orderings.py).                                  *)
(*                                                                         *)
(* PoolSpec is the state machine of VariablePool objects driven by their   *)
(* public operations.  TermSpec draws a term from the terms the Term       *)
(* constructor accepts and applies the pure operations of terms.py to it.  *)
(* OrdSpec evaluates one comparison of ordered values.  ThreadSpec runs    *)
(* the pool operations of several threads step by step.                    *)
(***************************************************************************)
EXTENDS Integers, Sequences, FiniteSets, TLC

VARIABLES
    state,      \* state[p]: the dict VariablePool.state of pool p (name -> VariableState)
    highest,    \* history: highest[p][n] = {the largest index pool p has returned for n}, {} if none
    ret,        \* the last pool call and what it returned or raised
    term,       \* the term-like value under inspection
    out,        \* the last term operation and what it returned or raised
    calls,      \* calls.thread[t]: the pool call thread t is in, and how far it has got
    cmp         \* the last comparison of ordered values and what it evaluated to

vars == <<state, highest, ret, term, out, calls, cmp>>
poolVars == <<state, highest, ret>>
termVars == <<term, out>>

-----------------------------------------------------------------------------
(* Bounds of the model *)

\* largest index a caller reserves, and largest counter value get_fresh consumes
MaxIndex == 2

\* largest number of positions (Term.__len__) of a term under inspection
MaxSize == 4

\* longest position handed to __getitem__
MaxPosLen == 3

Pools == {"P1", "P2"}
Names == {"x", ""}
Indices == -1 .. MaxIndex

-----------------------------------------------------------------------------
(* pools.py *)

\* a variable object as the pool operations see it; pool = "none" when unbound.
\* oid tells the instances of one construction site apart: the k-th
\* PoolVariable constructed for a name of a pool has oid k (the identity of
\* the other objects is not modelled, their oid is 0)
Obj(cls, name, index, pool) ==
    [cls |-> cls, name |-> name, index |-> index, pool |-> pool, oid |-> 0]

Instance(obj, k) == [obj EXCEPT !.oid = k]

PoolVariable(name, pool) == Obj("PoolVariable", name, 0, pool)

IndexedPoolVariable(name, index, pool) == Obj("IndexedPoolVariable", name, index, pool)

NoValue == Obj("None", "", 0, "none")

\* VariableState(variable=variable): next_index defaults to 1
VariableState(variable) == [variable |-> variable, next_index |-> 1]

\* update_index with the comparison off by one: reserving the counter's own
\* value does not advance it
update_index_strict(vs, index) ==
    IF index > vs.next_index
        THEN [vs EXCEPT !.next_index = index + 1]
        ELSE vs

\* update_index without the comparison: a low reservation lowers the counter
update_index_always(vs, index) ==
    [vs EXCEPT !.next_index = index + 1]

\* VariableState.update_index
update_index(vs, index) ==
    IF index >= vs.next_index
        THEN [vs EXCEPT !.next_index = index + 1]
        ELSE vs

\* _get_state that constructs the variable anew on every call
GetStateRecreating(st, p, name) ==
    IF name \in DOMAIN st[p]
        THEN [st EXCEPT ![p][name].variable = Instance(PoolVariable(name, p), @.oid + 1)]
        ELSE [st EXCEPT ![p] =
                [n \in DOMAIN st[p] \cup {name} |->
                    IF n = name THEN VariableState(Instance(PoolVariable(name, p), 1))
                                ELSE st[p][n]]]

\* _get_state without the membership test: the entry is stored anew on every
\* call, with the counter back at 1
GetStateResetting(st, p, name) ==
    [st EXCEPT ![p] =
        [n \in DOMAIN st[p] \cup {name} |->
            IF n = name THEN VariableState(Instance(PoolVariable(name, p), 1))
                        ELSE st[p][n]]]

\* VariablePool._get_state: the dicts after the call (the entry for name exists)
GetState(st, p, name) ==
    IF name \in DOMAIN st[p]
        THEN st
        ELSE [st EXCEPT ![p] =
                [n \in DOMAIN st[p] \cup {name} |->
                    IF n = name THEN VariableState(Instance(PoolVariable(name, p), 1))
                                ELSE st[p][n]]]

\* get on a state dict that all pools share (a mutable default instead of
\* default_factory): the entry and the counter of every pool change
GetSharedDict(st, p, name, index) ==
    LET st1 == [q \in Pools |-> GetState(st, q, name)[q]] IN
    IF index = <<>>
        THEN [state |-> st1, value |-> st1[p][name].variable]
        ELSE [state |-> [q \in Pools |-> [st1[q] EXCEPT ![name] = update_index(@, index[1])]],
              value |-> IndexedPoolVariable(name, index[1], p)]

\* VariablePool.get; index is <<>> for None and <<i>> for the integer i
Get(st, p, name, index) ==
    LET st1 == GetState(st, p, name) IN
    IF index = <<>>
        THEN [state |-> st1, value |-> st1[p][name].variable]
        ELSE [state |-> [st1 EXCEPT ![p][name] = update_index(@, index[1])],
              value |-> IndexedPoolVariable(name, index[1], p)]

\* get_fresh that skips the counter's current value
GetFreshSkipping(st, p, name) ==
    LET st1 == GetState(st, p, name)
        index == st1[p][name].next_index + 1
    IN  Get(st1, p, name, <<index>>)

\* VariablePool.get_fresh
GetFresh(st, p, name) ==
    LET st1 == GetState(st, p, name)
        index == st1[p][name].next_index
    IN  Get(st1, p, name, <<index>>)

\* fresh_variable that takes the index after the one of the indexed variable
\* it is given
FreshVariableNextToSource(st, source) ==
    CASE source.cls = "PoolVariable" ->
            GetFresh(st, source.pool, source.name) @@ [err |-> "none"]
      [] source.cls = "IndexedPoolVariable" ->
            Get(st, source.pool, source.name, <<source.index + 1>>) @@ [err |-> "none"]
      [] source.cls = "VariablePool" ->
            GetFresh(st, source.pool, "") @@ [err |-> "none"]
      [] OTHER ->
            [state |-> st, value |-> NoValue, err |-> "ValueError"]

\* fresh_variable registered for Variable and IndexedVariable, serving the
\* variables no pool has returned from a default pool
FreshVariableDefaultPool(st, source) ==
    CASE source.cls \in {"PoolVariable", "IndexedPoolVariable"} ->
            GetFresh(st, source.pool, source.name) @@ [err |-> "none"]
      [] source.cls \in {"Variable", "IndexedVariable"} ->
            GetFresh(st, "P1", source.name) @@ [err |-> "none"]
      [] source.cls = "VariablePool" ->
            GetFresh(st, source.pool, "") @@ [err |-> "none"]
      [] OTHER ->
            [state |-> st, value |-> NoValue, err |-> "ValueError"]

\* fresh_variable and its registrations (singledispatch on the class of source)
FreshVariable(st, source) ==
    CASE source.cls = "PoolVariable" ->
            GetFresh(st, source.pool, source.name) @@ [err |-> "none"]
      [] source.cls = "IndexedPoolVariable" ->
            GetFresh(st, source.pool, source.name) @@ [err |-> "none"]
      [] source.cls = "VariablePool" ->
            GetFresh(st, source.pool, "") @@ [err |-> "none"]
      [] OTHER ->
            [state |-> st, value |-> NoValue, err |-> "ValueError"]

\* the counter get_fresh would read for name: the default of a new entry is 1
NextIndexFor(st, p, name) ==
    IF name \in DOMAIN st[p] THEN st[p][name].next_index ELSE 1

Call(op, p, name, index, source, value, err) ==
    [op |-> op, pool |-> p, name |-> name, index |-> index,
     source |-> source, value |-> value, err |-> err]

\* the history of the indexed variables a pool has returned, kept as the
\* largest index per name: an index exceeds every index returned before
\* exactly when it exceeds the largest of them
Record(high, v) ==
    IF v.cls = "IndexedPoolVariable"
        THEN [high EXCEPT ![v.pool][v.name] =
                IF \E i \in @ : i >= v.index THEN @ ELSE {v.index}]
        ELSE high

\* pool[name] / pool.get(name)
DoGet(p, name) ==
    LET r == Get(state, p, name, <<>>) IN
    /\ state' = r.state
    /\ highest' = Record(highest, r.value)
    /\ ret' = Call("get", p, name, <<>>, NoValue, r.value, "none")
    /\ UNCHANGED <<termVars, calls, cmp>>

\* pool.get(name, index)
DoGetIndexed(p, name, index) ==
    LET r == Get(state, p, name, <<index>>) IN
    /\ state' = r.state
    /\ highest' = Record(highest, r.value)
    /\ ret' = Call("get_index", p, name, <<index>>, NoValue, r.value, "none")
    /\ UNCHANGED <<termVars, calls, cmp>>

\* pool.get_fresh(name)
DoGetFresh(p, name) ==
    LET r == GetFresh(state, p, name) IN
    /\ NextIndexFor(state, p, name) <= MaxIndex
    /\ state' = r.state
    /\ highest' = Record(highest, r.value)
    /\ ret' = Call("get_fresh", p, name, <<>>, NoValue, r.value, "none")
    /\ UNCHANGED <<termVars, calls, cmp>>

\* the values a caller can pass to fresh_variable: a pool, the canonical
\* variable of a name, the variable the last call returned, or an object no
\* pool has returned (test_pools.py: Variable('x'), IndexedVariable('y', 1), 5)
Sources ==
    {Obj("VariablePool", "", 0, p) : p \in Pools}
    \cup {state[pn[1]][pn[2]].variable :
            pn \in {q \in Pools \X Names : q[2] \in DOMAIN state[q[1]]}}
    \cup {v \in {ret.value} : v.cls = "IndexedPoolVariable"}
    \cup {Obj("Variable", "x", 0, "none"), Obj("IndexedVariable", "y", 1, "none"),
          Obj("int", "", 5, "none")}

SourceName(source) ==
    IF source.cls = "VariablePool" THEN "" ELSE source.name

\* fresh_variable(source)
DoFresh(source) ==
    LET r == FreshVariable(state, source) IN
    /\ source.pool # "none" =>
            NextIndexFor(state, source.pool, SourceName(source)) <= MaxIndex
    /\ state' = r.state
    /\ highest' = Record(highest, r.value)
    /\ ret' = Call("fresh", source.pool, SourceName(source), <<>>, source, r.value, r.err)
    /\ UNCHANGED <<termVars, calls, cmp>>

\* new pools, and no term under inspection
PoolInit ==
    /\ state = [p \in Pools |-> <<>>]
    /\ highest = [p \in Pools |-> [n \in Names |-> {}]]
    /\ ret = Call("init", "none", "", <<>>, NoValue, NoValue, "none")
    /\ term = NoValue
    /\ out = NoValue
    /\ calls = NoValue
    /\ cmp = NoValue

PoolNext ==
    \/ \E p \in Pools, name \in Names : DoGet(p, name)
    \/ \E p \in Pools, name \in Names, index \in Indices : DoGetIndexed(p, name, index)
    \/ \E p \in Pools, name \in Names : DoGetFresh(p, name)
    \/ \E source \in Sources : DoFresh(source)

PoolSpec == PoolInit /\ [][PoolNext]_vars

-----------------------------------------------------------------------------
(* terms.py: symbols and terms *)

\* a term-like value: a terminal symbol, or a Term whose root is the Function
\* (name, arity); the fields a class lacks hold 0 or <<>>
Constant(name) ==
    [cls |-> "Constant", name |-> name, index |-> 0, arity |-> 0, children |-> <<>>]

Variable(name) ==
    [cls |-> "Variable", name |-> name, index |-> 0, arity |-> 0, children |-> <<>>]

IndexedVariable(name, index) ==
    [cls |-> "IndexedVariable", name |-> name, index |-> index, arity |-> 0,
     children |-> <<>>]

Function(name, arity) == [name |-> name, arity |-> arity]

NoTerm == [cls |-> "None", name |-> "", index |-> 0, arity |-> 0, children |-> <<>>]

\* what a call does: it returns value, or raises err (carrying the position
\* its message shows)
Return(value) == [ok |-> TRUE, err |-> "none", errpos |-> <<>>, value |-> value]
Raise(err, position) == [ok |-> FALSE, err |-> err, errpos |-> position, value |-> NoTerm]

\* Term whose check rejects only too many children
TermLenient(root, children) ==
    LET arity == root.arity
        length == Len(children)
    IN  IF arity < length
            THEN Raise("ValueError", <<>>)
            ELSE Return([cls |-> "Term", name |-> root.name, index |-> 0,
                         arity |-> root.arity, children |-> children])

\* Term(root, children), with Term.__post_init__
Term(root, children) ==
    LET arity == root.arity
        length == Len(children)
    IN  IF arity # length
            THEN Raise("ValueError", <<>>)
            ELSE Return([cls |-> "Term", name |-> root.name, index |-> 0,
                         arity |-> root.arity, children |-> children])

\* Function.__call__
FunctionCall(root, args) == Term(root, args)

IsVariable(t) == t.cls \in {"Variable", "IndexedVariable"}

\* TerminalSymbol.__len__ and Term.__len__
RECURSIVE SumLen(_, _)
RECURSIVE TermLen(_)
SumLen(children, k) ==
    IF k > Len(children) THEN 0 ELSE TermLen(children[k]) + SumLen(children, k + 1)
\* __len__ that leaves the root out of the count
TermLenNoRoot(t) ==
    IF t.cls = "Term" THEN SumLen(t.children, 1) ELSE 1

TermLen(t) ==
    IF t.cls = "Term" THEN 1 + SumLen(t.children, 1) ELSE 1

\* tuple indexing that counts children from 1
TupleIndexFromOne(children, index) ==
    LET n == Len(children) IN
    IF index >= 1 /\ index <= n THEN Return(children[index])
    ELSE IF index < 0 /\ index >= -n THEN Return(children[n + index + 1])
    ELSE Raise("IndexError", <<>>)

\* children[index] on a Python tuple: indices -n .. -1 count from the end,
\* anything outside -n .. n-1 raises IndexError
TupleIndex(children, index) ==
    LET n == Len(children) IN
    IF index >= 0 /\ index < n THEN Return(children[index + 1])
    ELSE IF index < 0 /\ index >= -n THEN Return(children[n + index + 1])
    ELSE Raise("IndexError", <<>>)

\* TerminalSymbol.__getitem__: position is what is left of the iterator
TerminalGetItem(t, position) ==
    LET position_copy == position IN
    IF position_copy = <<>>
        THEN Return(t)
        ELSE Raise("KeyError", position_copy)

\* the loop of Term.__getitem__: rest is what position_iter has not yielded
RECURSIVE TermWalk(_, _, _)
TermWalk(current_term, rest, position_copy) ==
    IF rest = <<>>
        THEN Return(current_term)
        ELSE LET index == Head(rest)
                 child == TupleIndex(current_term.children, index)
             IN  IF ~child.ok
                    \* except IndexError
                    THEN Raise("KeyError", position_copy)
                    ELSE IF child.value.cls = "Term"
                        THEN TermWalk(child.value, Tail(rest), position_copy)
                        \* a KeyError of the child is no IndexError: it propagates
                        ELSE TerminalGetItem(child.value, Tail(rest))

\* Term.__getitem__
TermGetItem(t, position) == TermWalk(t, position, position)

\* value[position]
GetItem(t, position) ==
    IF t.cls = "Term" THEN TermGetItem(t, position) ELSE TerminalGetItem(t, position)

\* TermLike.__contains__: only an IndexError of self[position] is turned into
\* False; any other exception propagates
Contains(t, position) ==
    LET r == GetItem(t, position) IN
    IF r.ok THEN Return(TRUE)
    ELSE IF r.err = "IndexError" THEN Return(FALSE)
    ELSE r

\* TerminalSymbol.subterms and Term.subterms, in the order the generator yields
RECURSIVE ChildSubterms(_, _)
RECURSIVE Subterms(_)

\* the inner loop yielding (position, term) without the child's index in front
ChildSubtermsUnprefixed(children, k) ==
    IF k > Len(children)
        THEN <<>>
        ELSE Subterms(children[k]) \o ChildSubterms(children, k + 1)

ChildSubterms(children, k) ==
    IF k > Len(children)
        THEN <<>>
        ELSE LET index == k - 1
                 inner == Subterms(children[k])
             IN  [i \in 1 .. Len(inner) |-> << <<index>> \o inner[i][1], inner[i][2] >>]
                    \o ChildSubterms(children, k + 1)
Subterms(t) ==
    IF t.cls = "Term"
        THEN << << <<>>, t >> >> \o ChildSubterms(t.children, 1)
        ELSE << << <<>>, t >> >>

\* TermLike.positions
Positions(t) ==
    LET pairs == Subterms(t) IN [i \in 1 .. Len(pairs) |-> pairs[i][1]]

\* the elements of a finite set in some order (the order of a dict's keys is
\* not modelled)
RECURSIVE SetToSeq(_)
SetToSeq(S) ==
    IF S = {} THEN <<>>
    ELSE LET e == CHOOSE e \in S : TRUE IN <<e>> \o SetToSeq(S \ {e})

\* variables(value): Constant._variables, Variable._variables,
\* Term._variables and Substitution._variables, as the sequence yielded
RECURSIVE ChildVariables(_, _)
RECURSIVE Variables(_)

\* the loop of Term._variables yielding only the children that are variables
ChildVariablesShallow(children, k) ==
    IF k > Len(children)
        THEN <<>>
        ELSE (IF IsVariable(children[k]) THEN <<children[k]>> ELSE <<>>)
                \o ChildVariables(children, k + 1)

ChildVariables(children, k) ==
    IF k > Len(children)
        THEN <<>>
        ELSE Variables(children[k]) \o ChildVariables(children, k + 1)
Variables(value) ==
    CASE value.cls = "Constant" -> <<>>
      [] IsVariable(value) -> <<value>>
      [] value.cls = "Term" -> ChildVariables(value.children, 1)
      [] value.cls = "Substitution" -> SetToSeq(DOMAIN value.mapping)

-----------------------------------------------------------------------------
(* terms.py: substitution *)

\* a Substitution object; mapping is a function from variables to term-likes
Substitution(mapping) == [cls |-> "Substitution", mapping |-> mapping]

\* a merge in which earlier mappings win
DictMergeFirstWins(first, second) ==
    [k \in DOMAIN first \cup DOMAIN second |->
        IF k \in DOMAIN first THEN first[k] ELSE second[k]]

\* the dict display {**first, **second}: later mappings override earlier ones
DictMerge(first, second) ==
    [k \in DOMAIN first \cup DOMAIN second |->
        IF k \in DOMAIN second THEN second[k] ELSE first[k]]

\* Constant._substitute, Variable._substitute and Term._substitute
RECURSIVE Substitute(_, _)

\* a substitution that looks a variable's replacement up once more
RECURSIVE SubstituteChasing(_, _)
SubstituteChasing(t, mapping) ==
    CASE t.cls = "Constant" -> t
      [] IsVariable(t) ->
            IF t \in DOMAIN mapping
                THEN LET u == mapping[t] IN
                     IF IsVariable(u) /\ u \in DOMAIN mapping THEN mapping[u] ELSE u
                ELSE t
      [] t.cls = "Term" ->
            Term(Function(t.name, t.arity),
                 [i \in 1 .. Len(t.children) |->
                    SubstituteChasing(t.children[i], mapping)]).value

\* a substitution that looks variables up with mapping.get: a variable that
\* is not mapped becomes None
RECURSIVE SubstituteOrNone(_, _)
SubstituteOrNone(t, mapping) ==
    CASE t.cls = "Constant" -> t
      [] IsVariable(t) -> IF t \in DOMAIN mapping THEN mapping[t] ELSE NoTerm
      [] t.cls = "Term" ->
            Term(Function(t.name, t.arity),
                 [i \in 1 .. Len(t.children) |->
                    SubstituteOrNone(t.children[i], mapping)]).value
      [] OTHER -> t

\* a substitution that replaces the variables among the children of an
\* application and leaves the children that are applications as they are
SubstituteShallow(t, mapping) ==
    CASE t.cls = "Constant" -> t
      [] IsVariable(t) -> IF t \in DOMAIN mapping THEN mapping[t] ELSE t
      [] t.cls = "Term" ->
            Term(Function(t.name, t.arity),
                 [i \in 1 .. Len(t.children) |->
                    LET child == t.children[i] IN
                    IF IsVariable(child) /\ child \in DOMAIN mapping
                        THEN mapping[child] ELSE child]).value

Substitute(t, mapping) ==
    CASE t.cls = "Constant" -> t
      [] IsVariable(t) -> IF t \in DOMAIN mapping THEN mapping[t] ELSE t
      [] t.cls = "Term" ->
            Term(Function(t.name, t.arity),
                 [i \in 1 .. Len(t.children) |-> Substitute(t.children[i], mapping)]).value

\* a composition that carries the terms of self over without substituting them
SubstitutionSubstituteShallow(self, mapping) ==
    Substitution(DictMerge(mapping, self.mapping))

\* Substitution._substitute: self is the substitution the mapping is applied to
SubstitutionSubstitute(self, mapping) ==
    Substitution(
        DictMerge(mapping,
                  [variable \in DOMAIN self.mapping |->
                        Substitute(self.mapping[variable], mapping)]))

\* Substitution.__call__
Apply(s, value) ==
    IF value.cls = "Substitution"
        THEN SubstitutionSubstitute(value, s.mapping)
        ELSE Substitute(value, s.mapping)

\* len(value): Substitution.__len__, TerminalSymbol.__len__ and Term.__len__
ValueLen(value) ==
    IF value.cls = "Substitution"
        THEN Cardinality(DOMAIN value.mapping)
        ELSE TermLen(value)

-----------------------------------------------------------------------------
(* The inputs of TermSpec *)

ConstA == Constant("a")
VarX == Variable("x")
VarY == Variable("y")
FunF == Function("f", 2)
FunG == Function("g", 1)

Leaves == {ConstA, VarX, VarY}
Functions == {FunF, FunG}
MaxArity == 2

\* the sequences of length lo .. hi over S
SeqsOver(S, lo, hi) == UNION {[1 .. n -> S] : n \in lo .. hi}

\* the term-likes the constructor builds in at most d nested applications,
\* of size at most MaxSize
RECURSIVE Built(_)
Built(d) ==
    IF d = 0
        THEN Leaves
        ELSE LET prev == Built(d - 1)
                 made == {Term(root, cs) : root \in Functions,
                                           cs \in SeqsOver(prev, 1, MaxArity)}
             IN  prev \cup {r.value : r \in {m \in made : m.ok /\ TermLen(m.value) <= MaxSize}}

TermLikes == Built(MaxSize - 1)

\* child indices a caller tries: valid ones, negative ones, ones too large
IndexValues == -2 .. MaxArity
PositionInputs == SeqsOver(IndexValues, 0, MaxPosLen)

\* substitutions over x and y: each is unmapped or mapped to a constant, to a
\* variable (itself or the other one) or to an application
TermFXY == Term(FunF, <<VarX, VarY>>).value
SubstValues == Leaves \cup {TermFXY}
Substitutions ==
    {Substitution(m) : m \in UNION {[D -> SubstValues] : D \in SUBSET {VarX, VarY}}}

Op(op, args, res) == [op |-> op, args |-> args, res |-> res]

\* the term-like values among S
TermLikeOf(S) == {v \in S : v.cls # "Substitution"}

\* a term the constructor accepts or a substitution, no operation applied
\* yet; the pools are new
TermInit ==
    /\ term \in TermLikes \cup Substitutions
    /\ out = Op("init", <<>>, <<>>)
    /\ state = [p \in Pools |-> <<>>]
    /\ highest = [p \in Pools |-> [n \in Names |-> {}]]
    /\ ret = Call("init", "none", "", <<>>, NoValue, NoValue, "none")
    /\ calls = NoValue
    /\ cmp = NoValue

\* Term(root, children) on children taken from the term and the leaves
NewTerm(root, children) ==
    LET r == Term(root, children) IN
    /\ out.op = "init"
    /\ r.ok => TermLen(r.value) <= MaxSize
    /\ term' = IF r.ok THEN r.value ELSE term
    /\ out' = Op("Term", [root |-> root, children |-> children], r)
    /\ UNCHANGED <<poolVars, calls, cmp>>

\* root(*children)
CallFunction(root, children) ==
    LET r == FunctionCall(root, children) IN
    /\ out.op = "init"
    /\ r.ok => TermLen(r.value) <= MaxSize
    /\ term' = IF r.ok THEN r.value ELSE term
    /\ out' = Op("call", [root |-> root, children |-> children], r)
    /\ UNCHANGED <<poolVars, calls, cmp>>

\* term[position], for a term-like value
DoGetItem(position) ==
    /\ out.op = "init"
    /\ term.cls # "Substitution"
    /\ out' = Op("getitem", [position |-> position], GetItem(term, position))
    /\ UNCHANGED <<term, poolVars, calls, cmp>>

\* list(term.subterms()), for a term-like value
DoSubterms ==
    /\ out.op = "init"
    /\ term.cls # "Substitution"
    /\ out' = Op("subterms", <<>>, Subterms(term))
    /\ UNCHANGED <<term, poolVars, calls, cmp>>

\* s(term)
DoApply(s) ==
    /\ out.op = "init"
    /\ out' = Op("apply", [s |-> s], Apply(s, term))
    /\ UNCHANGED <<term, poolVars, calls, cmp>>

\* outer(inner)
DoCompose(outer, inner) ==
    /\ out.op = "init"
    /\ out' = Op("compose", [outer |-> outer, inner |-> inner], Apply(outer, inner))
    /\ UNCHANGED <<term, poolVars, calls, cmp>>

\* position in term, for an application (TerminalSymbol has no __contains__)
DoContains(position) ==
    /\ out.op = "init"
    /\ term.cls = "Term"
    /\ out' = Op("contains", [position |-> position], Contains(term, position))
    /\ UNCHANGED <<term, poolVars, calls, cmp>>

\* len(term)
DoLen ==
    /\ out.op = "init"
    /\ out' = Op("len", <<>>, ValueLen(term))
    /\ UNCHANGED <<term, poolVars, calls, cmp>>

\* list(variables(term))
DoVariables ==
    /\ out.op = "init"
    /\ out' = Op("variables", <<>>, Variables(term))
    /\ UNCHANGED <<term, poolVars, calls, cmp>>

\* one operation is applied to the value drawn
TermNext ==
    \/ out.op = "init" /\ \E root \in Functions,
             children \in SeqsOver(Leaves \cup TermLikeOf({term}), 0, MaxArity + 1) :
               NewTerm(root, children)
    \/ out.op = "init" /\ \E root \in Functions,
             children \in SeqsOver(Leaves \cup TermLikeOf({term}), 0, MaxArity + 1) :
               CallFunction(root, children)
    \/ out.op = "init" /\ \E position \in PositionInputs : DoGetItem(position)
    \/ out.op = "init" /\ \E position \in PositionInputs : DoContains(position)
    \/ DoSubterms
    \/ DoLen
    \/ DoVariables
    \/ out.op = "init" /\ \E s \in Substitutions : DoApply(s)
    \/ out.op = "init" /\ \E outer \in Substitutions, inner \in Substitutions :
                             DoCompose(outer, inner)

TermSpec == TermInit /\ [][TermNext]_vars

-----------------------------------------------------------------------------
(* Properties of the variable pool *)

Max(m, n) == IF m >= n THEN m ELSE n

\* a call that ran VariablePool.get_fresh to completion
IsFreshCall(r) == r.op = "get_fresh" \/ (r.op = "fresh" /\ r.err = "none")

\* C1: for one pool and one name, the index a get_fresh call returns is
\* strictly greater than every index the pool returned before for that name,
\* by get_fresh or by a reservation get(name, index); so it repeats none.
C1_FreshExceedsHistory ==
    [][IsFreshCall(ret') =>
        \A i \in highest[ret'.pool][ret'.name] : ret'.value.index > i]_vars

\* a get_fresh that returned 2 after index 1 had been issued or reserved
C1_Witness ==
    /\ ret.op = "get_fresh"
    /\ ret.value.index = 2
    /\ highest[ret.pool][ret.name] = {2}

\* C9: get_fresh(name) returns an IndexedVariable carrying the name and the
\* counter's value before the call (1 for a name the pool has never seen)
\* and leaves the counter at that index + 1.
C9_FreshConsumesCounter ==
    [][ret'.op = "get_fresh" =>
        /\ ret'.value = IndexedPoolVariable(ret'.name,
                            NextIndexFor(state, ret'.pool, ret'.name), ret'.pool)
        /\ state'[ret'.pool][ret'.name].next_index = ret'.value.index + 1]_vars

\* the second get_fresh of a name in a row: it returned 2, the counter is 3
C9_Witness ==
    /\ ret.op = "get_fresh"
    /\ ret.name = "x"
    /\ ret.value.index = 2
    /\ state[ret.pool]["x"].next_index = 3

\* C10: get(name, index) returns an IndexedVariable with exactly that name and
\* index and sets the name's counter to max(current counter, index + 1); the
\* counter is never lowered.
C10_ReserveRaisesToMax ==
    [][ret'.op = "get_index" =>
        LET current == NextIndexFor(state, ret'.pool, ret'.name) IN
        /\ ret'.value = IndexedPoolVariable(ret'.name, ret'.index[1], ret'.pool)
        /\ state'[ret'.pool][ret'.name].next_index = Max(current, ret'.index[1] + 1)
        /\ state'[ret'.pool][ret'.name].next_index >= current]_vars

\* a reservation below the counter: index 0 reserved while the counter is 3
C10_Witness ==
    /\ ret.op = "get_index"
    /\ ret.index = <<0>>
    /\ state[ret.pool][ret.name].next_index = 3

\* C11: no operation on one pool changes the state dict (the counters and
\* the canonical variables) of another pool, even for the same name.
C11_PoolsIndependent ==
    [][\A q \in Pools : q # ret'.pool => state'[q] = state[q]]_vars

\* both pools have served the name x and their counters differ
C11_Witness ==
    /\ ret.op = "get_fresh"
    /\ ret.pool = "P1"
    /\ ret.name = "x"
    /\ ret.value.index = 1
    /\ "x" \in DOMAIN state["P2"]
    /\ state["P2"]["x"].next_index = 3

\* C12: fresh(v) for a plain or indexed variable v that pool P returned does
\* what P.get_fresh(v.name) does (the index of v is ignored), and fresh(P)
\* does what P.get_fresh("") does: it returns the name's counter, which
\* exceeds every index P returned before for the name, and advances it.
C12_FreshIsGetFresh ==
    [][ret'.op = "fresh" /\ ret'.source.pool # "none" =>
        LET source == ret'.source
            name == IF source.cls = "VariablePool" THEN "" ELSE source.name
            r == GetFresh(state, source.pool, name)
        IN  /\ ret'.err = "none"
            /\ ret'.value = r.value
            /\ state' = r.state
            /\ ret'.value.index = NextIndexFor(state, source.pool, name)
            /\ state'[source.pool][name].next_index = ret'.value.index + 1
            /\ \A i \in highest[source.pool][name] : ret'.value.index > i]_vars

\* fresh of the indexed variable x#-1 returned 2: the index of the argument
\* is ignored
C12_Witness ==
    /\ ret.op = "fresh"
    /\ ret.source.cls = "IndexedPoolVariable"
    /\ ret.source.index = -1
    /\ ret.value.index = 2

\* C13: fresh of a value that no pool returned (a directly constructed
\* Variable or IndexedVariable, any other object) raises the not-pool-bound
\* error, returns no variable and changes no pool.
C13_FreshUnboundRaises ==
    [][ret'.op = "fresh" /\ ret'.source.cls \notin
                {"PoolVariable", "IndexedPoolVariable", "VariablePool"} =>
        /\ ret'.err = "ValueError"
        /\ ret'.value = NoValue
        /\ state' = state]_vars

\* fresh of a directly constructed Variable failed on pools in use
C13_Witness ==
    /\ ret.op = "fresh"
    /\ ret.source.cls = "Variable"
    /\ ret.err = "ValueError"
    /\ "x" \in DOMAIN state["P1"]
    /\ state["P1"]["x"].next_index = 2

\* C14: for one pool and one name, every get(name) returns the same instance
\* as the first one, whatever happens in between: get(name) returns the
\* instance the name's entry holds, and no operation replaces the instance
\* of an entry.
C14_CanonicalInstance ==
    [][/\ ret'.op = "get" =>
            ret'.value = state'[ret'.pool][ret'.name].variable
       /\ \A p \in Pools : \A n \in DOMAIN state[p] :
            /\ n \in DOMAIN state'[p]
            /\ state'[p][n].variable = state[p][n].variable]_vars

\* get(name) after the name's counter was advanced to 3 returns the first
\* instance constructed for the name
C14_Witness ==
    /\ ret.op = "get"
    /\ ret.value = Instance(PoolVariable(ret.name, ret.pool), 1)
    /\ state[ret.pool][ret.name].next_index = 3

-----------------------------------------------------------------------------
(* Properties of terms *)

\* the elements of a sequence
Range(seq) == {seq[i] : i \in 1 .. Len(seq)}

\* len(children) == root.arity at every application inside t
RECURSIVE WellFormed(_)
WellFormed(t) ==
    t.cls = "Term" =>
        /\ Len(t.children) = t.arity
        /\ \A i \in 1 .. Len(t.children) : WellFormed(t.children[i])

\* C2: Term(f, cs) and f(*cs) with len(cs) # f.arity raise the arity error and
\* produce no term; every term that exists, every sub-term of it and every
\* term a substitution builds has as many children as its root's arity.
C2_ArityChecked ==
    /\ out.op \in {"Term", "call"} /\ Len(out.args.children) # out.args.root.arity =>
            /\ ~out.res.ok
            /\ out.res.err = "ValueError"
            /\ out.res.value = NoTerm
    /\ out.op \in {"Term", "call"} /\ out.res.ok => WellFormed(out.res.value)
    /\ WellFormed(term)
    /\ out.op = "apply" => WellFormed(out.res)
    /\ out.op = "compose" =>
            \A v \in DOMAIN out.res.mapping : WellFormed(out.res.mapping[v])

\* f called with three children was rejected
C2_Witness ==
    /\ out.op = "call"
    /\ out.args.root = FunF
    /\ Len(out.args.children) = 3
    /\ ~out.res.ok

\* the sub-term subterms() pairs with position p
PairedWith(t, p) == (CHOOSE pair \in Range(Subterms(t)) : pair[1] = p)[2]

\* C3: for every position p that t.positions() yields, t[p] succeeds and returns
\* the sub-term paired with p in t.subterms(); t[()] returns t itself.
C3_GetItemAtPositions ==
    out.op = "getitem" /\ out.args.position \in Range(Positions(term)) =>
        /\ out.res.ok
        /\ out.res.value = PairedWith(term, out.args.position)
        /\ out.args.position = <<>> => out.res.value = term

\* a variable fetched from two levels down
C3_Witness ==
    /\ out.op = "getitem"
    /\ Len(out.args.position) = 2
    /\ out.args.position \in Range(Positions(term))
    /\ out.res.ok
    /\ IsVariable(out.res.value)

\* C4: for every position p that t.positions() does not yield (an index too
\* large, a negative index, a descent below a terminal symbol), t[p] raises
\* the invalid-position error and returns no sub-term.
C4_InvalidPositionRaises ==
    out.op = "getitem" /\ out.args.position \notin Range(Positions(term)) =>
        /\ ~out.res.ok
        /\ out.res.err = "KeyError"
        /\ out.res.value = NoTerm

\* C5: the composition outer(inner) has the domain domain(inner) \cup
\* domain(outer), maps every v of domain(inner) to outer.apply(inner[v]) and
\* every other v of domain(outer) to outer[v]; the documented example holds.
C5_Example ==
    LET z == Variable("z")
        b == Constant("b")
        c == Constant("c")
        inner == Substitution((VarX :> TermFXY) @@ (VarY :> Term(FunG, <<z>>).value))
        outer == Substitution((VarX :> ConstA) @@ (VarY :> b) @@ (z :> c))
    IN  Apply(outer, inner) =
            Substitution((VarX :> Term(FunF, <<ConstA, b>>).value)
                            @@ (VarY :> Term(FunG, <<c>>).value) @@ (z :> c))

C5_ComposeMapping ==
    /\ C5_Example
    /\ out.op = "compose" =>
            LET inner == out.args.inner.mapping
                outer == out.args.outer.mapping
                composed == out.res.mapping
            IN  /\ out.res.cls = "Substitution"
                /\ DOMAIN composed = DOMAIN inner \cup DOMAIN outer
                /\ \A v \in DOMAIN inner : composed[v] = Apply(out.args.outer, inner[v])
                /\ \A v \in DOMAIN outer \ DOMAIN inner : composed[v] = outer[v]

\* both map x, only outer maps y, and x is not mapped to outer's value for it
C5_Witness ==
    /\ out.op = "compose"
    /\ DOMAIN out.args.inner.mapping = {VarX}
    /\ DOMAIN out.args.outer.mapping = {VarX, VarY}
    /\ out.res.mapping[VarX] # out.args.outer.mapping[VarX]
    /\ out.res.mapping[VarX] # out.args.inner.mapping[VarX]

\* C6: applying the composition outer(inner) to a term gives the same term as
\* applying inner and then outer.
C6_ComposeThenApply ==
    out.op = "compose" =>
        Apply(out.res, term) = Apply(out.args.outer, Apply(out.args.inner, term))

\* a term that inner changes and outer changes again
C6_Witness ==
    /\ out.op = "compose"
    /\ term.cls = "Term"
    /\ Apply(out.args.inner, term) # term
    /\ Apply(out.res, term) # Apply(out.args.inner, term)
    /\ Apply(out.res, term) # Apply(out.args.outer, term)

\* C7: s.apply(t) is one simultaneous pass: a constant is returned unchanged,
\* a variable of the mapping is replaced by its value taken as-is, any other
\* variable is returned unchanged, and an application is rebuilt with the same
\* root and each child replaced by s.apply(child); so every position of t
\* holds in the result what the pass puts there.
C7_ApplyOnePass ==
    out.op = "apply" =>
        LET m == out.args.s.mapping IN
        /\ term.cls = "Constant" => out.res = term
        /\ IsVariable(term) => out.res = (IF term \in DOMAIN m THEN m[term] ELSE term)
        /\ term.cls = "Term" =>
                /\ out.res.cls = "Term"
                /\ out.res.name = term.name /\ out.res.arity = term.arity
                /\ Len(out.res.children) = Len(term.children)
                /\ \A i \in 1 .. Len(term.children) :
                        out.res.children[i] = Apply(out.args.s, term.children[i])
        /\ \A pair \in Range(Subterms(term)) :
                LET u == pair[2]
                    r == GetItem(out.res, pair[1])
                IN  /\ r.ok
                    /\ u.cls = "Constant" => r.value = u
                    /\ IsVariable(u) => r.value = (IF u \in DOMAIN m THEN m[u] ELSE u)
                    /\ u.cls = "Term" => r.value.name = u.name /\ r.value.arity = u.arity

\* x and y swapped inside an application: neither is substituted again
C7_Witness ==
    /\ out.op = "apply"
    /\ out.args.s.mapping = (VarX :> VarY) @@ (VarY :> VarX)
    /\ term = TermFXY
    /\ out.res.children = <<VarY, VarX>>

\* p is a path of child indices from the root of t that stays inside t
RECURSIVE IsPath(_, _)
IsPath(t, p) ==
    \/ p = <<>>
    \/ /\ t.cls = "Term"
       /\ Head(p) \in 0 .. Len(t.children) - 1
       /\ IsPath(t.children[Head(p) + 1], Tail(p))

ValidPositions(t) ==
    {p \in SeqsOver(0 .. MaxArity - 1, 0, MaxSize - 1) : IsPath(t, p)}

\* C8: t.subterms() yields finitely many pairs, no position twice and no valid
\* position missing: the positions are exactly the paths that stay inside t.
C8_SubtermsCoverPositions ==
    out.op = "subterms" =>
        /\ \A i, j \in 1 .. Len(out.res) : out.res[i][1] = out.res[j][1] => i = j
        /\ {pair[1] : pair \in Range(out.res)} = ValidPositions(term)

\* the four positions of f(g(x), y) or of a term of the same shape
C8_Witness ==
    /\ out.op = "subterms"
    /\ Len(out.res) = 4
    /\ <<0, 0>> \in {pair[1] : pair \in Range(out.res)}
    /\ <<1>> \in {pair[1] : pair \in Range(out.res)}

\* C15: for an application t and a position p, p in t returns true exactly
\* when t[p] succeeds, and returns false without raising when t[p] fails.
C15_ContainsProbes ==
    out.op = "contains" =>
        /\ out.res.ok
        /\ out.res.value = GetItem(term, out.args.position).ok

\* C16: whenever t[p] fails, the error carries the complete position p the
\* caller supplied, never a remaining suffix of it.
C16_ErrorCarriesFullPosition ==
    out.op = "getitem" /\ ~out.res.ok => out.res.errpos = out.args.position

\* the number of times v occurs in seq
Count(seq, v) == Cardinality({i \in 1 .. Len(seq) : seq[i] = v})

\* C17: len(t) is 1 for a terminal symbol and 1 plus the sum of the
\* children's sizes for an application, and it equals the number of pairs
\* t.subterms() yields, which is the number of valid positions of t.
C17_SizeCountsPositions ==
    out.op = "len" /\ term.cls # "Substitution" =>
        /\ term.cls # "Term" => out.res = 1
        /\ term.cls = "Term" => out.res = 1 + SumLen(term.children, 1)
        /\ out.res = Len(Subterms(term))
        /\ out.res = Cardinality(ValidPositions(term))

\* the size of an application with a nested application
C17_Witness ==
    /\ out.op = "len"
    /\ term.cls = "Term"
    /\ \E i \in 1 .. Len(term.children) : term.children[i].cls = "Term"
    /\ out.res = 4

\* the sub-terms of t at its positions, one per position
SubtermSeq(t) == [i \in 1 .. Len(Subterms(t)) |-> Subterms(t)[i][2]]

\* C18: variables(t) yields one variable per variable occurrence: every
\* variable is yielded as many times as there are positions of t holding it,
\* and nothing else is yielded; a constant yields nothing, a variable itself
\* once, a substitution exactly the keys of its mapping.
C18_VariablesPerOccurrence ==
    out.op = "variables" =>
        /\ \A i \in 1 .. Len(out.res) : IsVariable(out.res[i])
        /\ term.cls # "Substitution" =>
                \A v \in Range(out.res) \cup {u \in Range(SubtermSeq(term)) : IsVariable(u)} :
                    Count(out.res, v) = Count(SubtermSeq(term), v)
        /\ term.cls = "Constant" => out.res = <<>>
        /\ IsVariable(term) => out.res = <<term>>
        /\ term.cls = "Substitution" =>
                /\ Range(out.res) = DOMAIN term.mapping
                /\ Len(out.res) = Cardinality(DOMAIN term.mapping)

\* a variable that occurs twice, once below a nested application
C18_Witness ==
    /\ out.op = "variables"
    /\ term.cls = "Term"
    /\ \E i \in 1 .. Len(term.children) : term.children[i].cls = "Term"
    /\ Count(out.res, VarX) = 2

\* C19: the empty substitution applied to a term returns an equal term, and
\* applied to a substitution returns an equal substitution.
C19_EmptySubstitutionIdentity ==
    out.op = "apply" /\ DOMAIN out.args.s.mapping = {} => out.res = term

\* the empty substitution applied to an application holding a variable
C19_Witness ==
    /\ out.op = "apply"
    /\ DOMAIN out.args.s.mapping = {}
    /\ term.cls = "Term"
    /\ Variables(term) # <<>>

\* C20: composition is associative: for substitutions s1, s2, s3 the
\* mappings of s3(s2(s1)) and (s3(s2))(s1) have the same keys and the same
\* value for every key (here s1 is the substitution under inspection, s2 and
\* s3 the two that are composed).
C20_ComposeAssociative ==
    out.op = "compose" /\ term.cls = "Substitution" =>
        LET nested == Apply(out.args.outer, Apply(out.args.inner, term)).mapping
            grouped == Apply(Apply(out.args.outer, out.args.inner), term).mapping
        IN  /\ DOMAIN nested = DOMAIN grouped
            /\ \A v \in DOMAIN nested : nested[v] = grouped[v]

\* three substitutions that each change what the next one sees
C20_Witness ==
    /\ out.op = "compose"
    /\ term.cls = "Substitution"
    /\ term.mapping = (VarX :> TermFXY)
    /\ out.args.inner.mapping = (VarX :> VarY) @@ (VarY :> VarX)
    /\ out.args.outer.mapping = (VarX :> ConstA)
    /\ Apply(out.res, term).mapping = (VarX :> Term(FunF, <<VarY, ConstA>>).value)
                                            @@ (VarY :> ConstA)

\* C21 as stated: when both inner and outer map a variable v, the composition
\* outer(inner) maps v to outer's own value outer[v], taken as-is.
C21_OuterDominant ==
    out.op = "compose" =>
        \A v \in DOMAIN out.args.inner.mapping \cap DOMAIN out.args.outer.mapping :
            out.res.mapping[v] = out.args.outer.mapping[v]

\* C21 as the code has it: when both inner and outer map a variable v, the
\* entry built from inner overrides outer's: outer(inner) maps v to inner[v]
\* with outer applied to it, and outer[v] itself is used for v only where it
\* occurs in inner[v].
C21_InnerEntryOverrides ==
    out.op = "compose" =>
        \A v \in DOMAIN out.args.inner.mapping \cap DOMAIN out.args.outer.mapping :
            LET image == out.args.inner.mapping[v] IN
            /\ out.res.mapping[v] = Substitute(image, out.args.outer.mapping)
            /\ (\A w \in Range(Variables(image)) : w \notin DOMAIN out.args.outer.mapping)
                    => out.res.mapping[v] = image

\* both map x, to different values, and the composition keeps inner's
C21_Witness ==
    /\ out.op = "compose"
    /\ VarX \in DOMAIN out.args.inner.mapping \cap DOMAIN out.args.outer.mapping
    /\ out.args.inner.mapping[VarX] = ConstA
    /\ out.args.outer.mapping[VarX] = VarY
    /\ out.res.mapping[VarX] = ConstA

-----------------------------------------------------------------------------
(* orderings.py *)

\* largest payload wrapped by an ordering function
MaxPayload == 2

\* the objects that are wrapped and compared: ints
PyInt(n) == [cls |-> "int", int |-> n]
Payloads == {PyInt(n) : n \in -1 .. MaxPayload}

\* the keyword arguments of a call: none, or foo=k
KwargsValues == {<<>>} \cup {[foo |-> k] : k \in {-1, 2}}

\* the functions handed to ordering(): ord1(value, foo=1) is foo * value and
\* ord2(value, foo=0) is the squared distance of value from foo
ConstructorNames == {"ord1", "ord2"}

Constructor(name, value, kwargs) ==
    CASE name = "ord1" ->
            (IF "foo" \in DOMAIN kwargs THEN kwargs.foo ELSE 1) * value.int
      [] name = "ord2" ->
            LET d == value.int - (IF "foo" \in DOMAIN kwargs THEN kwargs.foo ELSE 0)
            IN  d * d

\* the annotated fields of the class OrderedValue in declaration order;
\* default tells whether the class has an attribute of the field's name,
\* which the dataclass decorator takes as the field's default: value is the
\* abstract property inherited from AbstractOrderedValue
OrderedValueFields ==
    << [name |-> "value", default |-> TRUE],
       [name |-> "kwargs", default |-> FALSE] >>

\* @dataclass generating __init__: a field without a default may not follow
\* a field with one
Dataclass(fields) ==
    IF \E i, j \in DOMAIN fields : i < j /\ fields[i].default /\ ~fields[j].default
        THEN Raise("TypeError", <<>>)
        ELSE Return(fields)

\* ordering(constructor): the class is created, then the wrapped constructor
Ordering(constructor) ==
    LET class == Dataclass(OrderedValueFields) IN
    IF class.ok
        THEN Return([cls |-> "ordering", constructor |-> constructor])
        ELSE class

\* wrapped_constructor(value, **kwargs) of the ordering function fn
OrderedValue(fn, value, kwargs) ==
    [cls |-> "OrderedValue", constructor |-> fn.constructor,
     value |-> value, kwargs |-> kwargs]

\* isinstance(right, AbstractOrderedValue)
IsOrderedValue(right) == right.cls = "OrderedValue"

\* OrderedValue._construct_comparable
construct_comparable(self, value) ==
    Constructor(self.constructor, value, self.kwargs)

\* AbstractOrderedValue._evaluate_left
evaluate_left(self) == construct_comparable(self, self.value)

\* AbstractOrderedValue._evaluate_right
evaluate_right(self, right) ==
    IF IsOrderedValue(right)
        THEN construct_comparable(self, right.value)
        ELSE construct_comparable(self, right)

\* AbstractOrderedValue._unwrap_right
unwrap_right(self, right) ==
    IF IsOrderedValue(right) THEN right.value ELSE right

\* the result of  left op right  on the comparables the constructors return
Compare(op, left, right) ==
    CASE op = "lt" -> left < right
      [] op = "le" -> left <= right
      [] op = "gt" -> left > right
      [] op = "ge" -> left >= right

\* AbstractOrderedValue.__lt__, __le__, __gt__ and __ge__
RichCompare(op, self, right) ==
    Compare(op, evaluate_left(self), evaluate_right(self, right))

\* self == right: the __eq__ that @dataclass adds to the class OrderedValue
\* (eq=True is the default), in place of the one inherited from
\* AbstractOrderedValue.  For an object of another class it returns
\* NotImplemented, the reflected right == self of an int or of another
\* ordering's class does too, and the comparison falls back to identity
Eq(self, right) ==
    IF IsOrderedValue(right) /\ right.constructor = self.constructor
        THEN <<self.value, self.kwargs>> = <<right.value, right.kwargs>>
        ELSE FALSE

\* AbstractOrderedValue.__ne__ (the decorator adds no __ne__)
Ne(self, right) == self.value # unwrap_right(self, right)

\* an operand as the caller writes it: an object, or a call of an ordering
\* function cmp(value, **kwargs) still to be evaluated
OrderedCall(constructor, value, kwargs) ==
    [cls |-> "call", constructor |-> constructor, value |-> value, kwargs |-> kwargs]

OrderedCalls ==
    {OrderedCall(c, v, kw) : c \in ConstructorNames, v \in Payloads, kw \in KwargsValues}

\* evaluating an operand: ordering(constructor)(value, **kwargs) for a call
Operand(x) ==
    IF x.cls = "call"
        THEN LET fn == Ordering(x.constructor) IN
             IF fn.ok THEN Return(OrderedValue(fn.value, x.value, x.kwargs)) ELSE fn
        ELSE Return(x)

\* left op right
DoCompare(op, left, right) ==
    LET w == Operand(left)
        r == Operand(right)
    IN  /\ cmp.op = "init"
        /\ cmp' = Op(op, [left |-> left, right |-> right],
                     IF ~w.ok THEN w
                     ELSE IF ~r.ok THEN r
                     ELSE Return(RichCompare(op, w.value, r.value)))
        /\ UNCHANGED <<poolVars, termVars, calls>>

\* (left == right, left != right)
DoEquality(left, right) ==
    LET w == Operand(left)
        r == Operand(right)
    IN  /\ cmp.op = "init"
        /\ cmp' = Op("equality", [left |-> left, right |-> right],
                     IF ~w.ok THEN w
                     ELSE IF ~r.ok THEN r
                     ELSE Return([eq |-> Eq(w.value, r.value),
                                  ne |-> Ne(w.value, r.value)]))
        /\ UNCHANGED <<poolVars, termVars, calls>>

\* left < middle < right: middle is evaluated once, and middle < right only
\* when left < middle is true
DoChain(left, middle, right) ==
    LET w == Operand(left)
        m == Operand(middle)
        r == Operand(right)
    IN  /\ cmp.op = "init"
        /\ cmp' = Op("chain", [left |-> left, middle |-> middle, right |-> right],
                     IF ~w.ok THEN w
                     ELSE IF ~m.ok THEN m
                     ELSE IF ~RichCompare("lt", w.value, m.value) THEN Return(FALSE)
                     ELSE IF ~r.ok THEN r
                     ELSE Return(RichCompare("lt", m.value, r.value)))
        /\ UNCHANGED <<poolVars, termVars, calls>>

\* no comparison made yet
OrdInit ==
    /\ cmp = Op("init", <<>>, <<>>)
    /\ state = [p \in Pools |-> <<>>]
    /\ highest = [p \in Pools |-> [n \in Names |-> {}]]
    /\ ret = Call("init", "none", "", <<>>, NoValue, NoValue, "none")
    /\ term = NoValue
    /\ out = NoValue
    /\ calls = NoValue

OrdNext ==
    \/ \E op \in {"lt", "le", "gt", "ge"}, left \in OrderedCalls,
          right \in OrderedCalls \cup Payloads : DoCompare(op, left, right)
    \/ \E left \in OrderedCalls, right \in OrderedCalls \cup Payloads :
            DoEquality(left, right)
    \/ \E left \in OrderedCalls, middle \in OrderedCalls, right \in Payloads :
            DoChain(left, middle, right)

OrdSpec == OrdInit /\ [][OrdNext]_vars

-----------------------------------------------------------------------------
(* Properties of the ordering functions *)

\* the payload of a right operand: the wrapped value of a call, else itself
PayloadOf(x) == IF x.cls = "call" THEN x.value ELSE x

\* cmp(a, **kw) op cmp(v, **kw) as the claims read it
Expected(op, left, v) ==
    Compare(op, Constructor(left.constructor, left.value, left.kwargs),
                Constructor(left.constructor, v, left.kwargs))

\* C22: for w = cmp(a, **kw) and op in <, <=, >, >=, w op r evaluates as
\* constructor(a, **kw) op constructor(v, **kw), v being r's payload; and the
\* chain ord1(a, foo=1) < ord2(b) < c is the conjunction of
\* ord1(a, foo=1) < ord1(b, foo=1) and ord2(b) < ord2(c).
C22_LeftComparatorApplies ==
    /\ cmp.op \in {"lt", "le", "gt", "ge"} =>
            /\ cmp.res.ok
            /\ cmp.res.value =
                    Expected(cmp.op, cmp.args.left, PayloadOf(cmp.args.right))
    /\ cmp.op = "chain" =>
            /\ cmp.res.ok
            /\ cmp.res.value =
                    (/\ Expected("lt", cmp.args.left, PayloadOf(cmp.args.middle))
                     /\ Expected("lt", cmp.args.middle, cmp.args.right))

\* C23: for w = cmp(a, **kw), w == r is true exactly when a equals r's
\* payload and w != r exactly when they differ, whatever the comparators and
\* keyword configurations; the two are never both true or both false.
C23_EqualityOnPayloads ==
    cmp.op = "equality" =>
        LET same == cmp.args.left.value = PayloadOf(cmp.args.right)
        IN  /\ cmp.res.ok
            /\ cmp.res.value = [eq |-> same, ne |-> ~same]

-----------------------------------------------------------------------------
(* pools.py called from several threads: the interpreter may switch threads *)
(* between any two steps of a call                                          *)

\* each thread makes one call
Threads == {"T1", "T2", "T3"}

\* a thread's call: pc is where the thread stands in it, index the local
\* variable (get_fresh) or argument (get) of that name, store the value
\* update_index is about to assign, and made whether the thread has made
\* its call
ThreadCall(pc, op, p, name, index, store, made) ==
    [pc |-> pc, op |-> op, pool |-> p, name |-> name, index |-> index,
     store |-> store, made |-> made]

Idle(made) == ThreadCall("idle", "none", "none", "", 0, 0, made)

\* the step of thread t on pool p: overlapped collects the pools on which a
\* call has run while another thread was inside a call on the same pool, and
\* repeated the pools of which a get_fresh has returned an index that is not
\* above every index returned before for the name
Step(t, p, call) ==
    [thread |-> [calls.thread EXCEPT ![t] = call],
     overlapped |->
        IF \E u \in Threads \ {t} :
                calls.thread[u].pc # "idle" /\ calls.thread[u].pool = p
            THEN calls.overlapped \cup {p}
            ELSE calls.overlapped,
     repeated |->
        LET c == calls.thread[t] IN
        IF /\ c.pc = "return"
           /\ c.op = "get_fresh"
           /\ \E i \in highest[c.pool][c.name] : c.index <= i
            THEN calls.repeated \cup {p}
            ELSE calls.repeated]

\* get_fresh, first line: index = self._get_state(name).next_index
ThreadFreshRead(t, p, name) ==
    LET st1 == GetState(state, p, name) IN
    /\ calls.thread[t].pc = "idle"
    /\ ~calls.thread[t].made
    /\ st1[p][name].next_index <= MaxIndex
    /\ state' = st1
    /\ calls' = Step(t, p, ThreadCall("test", "get_fresh", p, name,
                                      st1[p][name].next_index, 0, TRUE))
    /\ UNCHANGED <<highest, ret, termVars, cmp>>

\* pool.get(name, index) is entered
ThreadGetIndexed(t, p, name, index) ==
    /\ calls.thread[t].pc = "idle"
    /\ ~calls.thread[t].made
    /\ calls' = Step(t, p, ThreadCall("test", "get_index", p, name, index, 0, TRUE))
    /\ UNCHANGED <<poolVars, termVars, cmp>>

\* get: self._get_state(name), and update_index up to its comparison
ThreadTest(t) ==
    LET c == calls.thread[t]
        st1 == GetState(state, c.pool, c.name)
        vs == st1[c.pool][c.name]
        updated == update_index(vs, c.index)
    IN  /\ c.pc = "test"
        /\ state' = st1
        /\ calls' = Step(t, c.pool,
                        IF updated # vs
                            THEN [c EXCEPT !.pc = "assign", !.store = updated.next_index]
                            ELSE [c EXCEPT !.pc = "return"])
        /\ UNCHANGED <<highest, ret, termVars, cmp>>

\* update_index: the assignment self.next_index = index + 1
ThreadAssign(t) ==
    LET c == calls.thread[t] IN
    /\ c.pc = "assign"
    /\ state' = [state EXCEPT ![c.pool][c.name].next_index = c.store]
    /\ calls' = Step(t, c.pool, [c EXCEPT !.pc = "return"])
    /\ UNCHANGED <<highest, ret, termVars, cmp>>

\* get: return IndexedPoolVariable(name=name, index=index, pool=self)
ThreadReturn(t) ==
    LET c == calls.thread[t]
        value == IndexedPoolVariable(c.name, c.index, c.pool)
    IN  /\ c.pc = "return"
        /\ highest' = Record(highest, value)
        /\ ret' = Call(c.op, c.pool, c.name,
                       IF c.op = "get_index" THEN <<c.index>> ELSE <<>>,
                       NoValue, value, "none")
        /\ calls' = Step(t, c.pool, Idle(c.made))
        /\ UNCHANGED <<state, termVars, cmp>>

\* new pools, and no thread inside a call
ThreadInit ==
    /\ state = [p \in Pools |-> <<>>]
    /\ highest = [p \in Pools |-> [n \in Names |-> {}]]
    /\ ret = Call("init", "none", "", <<>>, NoValue, NoValue, "none")
    /\ calls = [thread |-> [t \in Threads |-> Idle(FALSE)],
                overlapped |-> {}, repeated |-> {}]
    /\ term = NoValue
    /\ out = NoValue
    /\ cmp = NoValue

ThreadNext ==
    \/ \E t \in Threads, p \in Pools, name \in Names : ThreadFreshRead(t, p, name)
    \/ \E t \in Threads, p \in Pools, name \in Names, index \in Indices :
            ThreadGetIndexed(t, p, name, index)
    \/ \E t \in Threads : ThreadTest(t)
    \/ \E t \in Threads : ThreadAssign(t)
    \/ \E t \in Threads : ThreadReturn(t)

ThreadSpec == ThreadInit /\ [][ThreadNext]_vars

\* C24: get_fresh reads the counter and advances it in separate steps; as
\* long as no call on the pool has run while another thread was inside a call
\* on it, every get_fresh returns an index above every index the pool
\* returned before for the name, and interleaved calls can return one index
\* twice (the witness).
C24_SerializedFreshNoRepeat ==
    [][\A t \in Threads :
        LET c == calls.thread[t] IN
        (/\ c.pc = "return"
         /\ calls'.thread[t].pc = "idle"
         /\ c.op = "get_fresh"
         /\ c.pool \notin calls'.overlapped)
            => \A i \in highest[c.pool][c.name] : c.index > i]_vars

\* a get_fresh has just returned, on a pool whose calls were interleaved, the
\* index 1 that the pool had returned for the name before
C24_Witness ==
    /\ ret.op = "get_fresh"
    /\ ret.value.index = 1
    /\ highest[ret.pool][ret.name] = {1}
    /\ ret.pool \in calls.repeated
    /\ ret.pool \in calls.overlapped
    /\ \A t \in Threads : calls.thread[t].pc = "idle"

-----------------------------------------------------------------------------
(* Equality of the variables a pool returns *)

\* left == right on symbols: the __eq__ that @dataclass generates for each
\* class compares the fields declared with compare=True (name, and index of
\* the indexed classes; never pool) when both objects are of the same class;
\* otherwise both sides return NotImplemented and distinct objects are unequal
SymbolEq(left, right) ==
    IF left.cls = right.cls
        THEN <<left.name, left.index>> = <<right.name, right.index>>
        ELSE FALSE

\* C25: the plain variable a pool returns for name n (pool[n], from which a
\* Signature takes its variable attribute) compares equal to Variable(n).
C25_PoolVariableEqualsVariable ==
    ret.op = "get" => SymbolEq(ret.value, Obj("Variable", ret.name, 0, "none"))

-----------------------------------------------------------------------------
(* Substitution and positions *)

\* C26: substitution preserves the positions of the term it is applied to:
\* every position p of t is a position of s.apply(t), and the sub-term of
\* s.apply(t) at p is s.apply of the sub-term of t at p.
C26_ApplyPreservesPositions ==
    (out.op = "apply" /\ term.cls # "Substitution") =>
        \A p \in Range(Positions(term)) :
            /\ p \in Range(Positions(out.res))
            /\ GetItem(out.res, p).ok
            /\ GetItem(out.res, p).value = Apply(out.args.s, GetItem(term, p).value)

\* a variable two levels down was replaced by an application, so the result
\* has more positions than the term
C26_Witness ==
    /\ out.op = "apply"
    /\ term.cls = "Term"
    /\ \E p \in Range(Positions(term)) :
            /\ Len(p) = 2
            /\ GetItem(term, p).value = VarX
            /\ GetItem(out.res, p).value = TermFXY
    /\ Len(Positions(out.res)) > Len(Positions(term))

-----------------------------------------------------------------------------
(* Frame of the pool operations *)

\* C27: get(name) without an index changes the value of no counter (at most
\* it creates the entry of name with counter 1, what a first use would see
\* anyway), and get(name, index) and get_fresh(name) leave the counter and the
\* canonical variable of every other name of the pool unchanged.
C27_GetFrame ==
    [][/\ ret'.op = "get" =>
            /\ \A p \in Pools : \A n \in Names :
                    NextIndexFor(state', p, n) = NextIndexFor(state, p, n)
            /\ \A p \in Pools :
                    DOMAIN state'[p] =
                        DOMAIN state[p] \cup (IF p = ret'.pool THEN {ret'.name} ELSE {})
       /\ ret'.op \in {"get_index", "get_fresh"} =>
            \A n \in Names \ {ret'.name} :
                /\ n \in DOMAIN state'[ret'.pool] <=> n \in DOMAIN state[ret'.pool]
                /\ n \in DOMAIN state[ret'.pool] =>
                        state'[ret'.pool][n] = state[ret'.pool][n]]_vars

\* get("x") on a pool whose counter of "x" stands at 3 and whose other name
\* has a counter of 2
C27_Witness ==
    /\ ret.op = "get"
    /\ ret.name = "x"
    /\ DOMAIN state[ret.pool] = Names
    /\ state[ret.pool]["x"].next_index = 3
    /\ state[ret.pool][""].next_index = 2

=============================================================================
